---------------------------- MODULE Spec2Model ----------------------------
(***************************************************************************)
(* Model of the multi-agent orchestration backend:                         *)
(*   - TemplateAgentExecutor (services/template_agent_executor.py):        *)
(*     dependency-ordered execution of agent templates in stages;          *)
(*   - EpicStoriesPipeline (services/epic_stories_pipeline.py): the        *)
(*     background epics -> stories -> merge job and its job table.         *)
(* Template ids are integers (their numeric order stands for the string    *)
(* order used by sorted()); LLM responses are abstracted to what the code  *)
(* looks at (word count, success or raised exception, EPIC header lines).  *)
(***************************************************************************)
EXTENDS Integers, Sequences, FiniteSets, TLC

\* ------------------------------------------------------------------ bounds
MaxRequest == 3        \* longest requested template_ids list
MaxEdges == 2          \* most depends_on entries over the whole store
MaxJobs == 2           \* start_pipeline calls
MaxTime == 1           \* seconds the clock advances
MaxLines == 2          \* lines of the epic generator's text

MaxTextLines == 11     \* lines of a text handed to _extract_questions
MaxWords == 302        \* words of a text handed to _calculate_confidence
MaxGenerate == 2       \* provider generate calls the registry hands on

\* ------------------------------------------------------- program constants
NumVariations == 5     \* range(5) in _execute_rerun_agent
MaxQuestions == 10     \* questions[:10] in _extract_questions
MinQuestionLen == 10   \* len(line) > 10 in _extract_questions

\* The store holds one template of each kind of execution: 1 is the variation
\* ("rerun") agent, 2 the question agent, 3 a standard agent.
StoreIds == {1, 2, 3}
UnknownId == Cardinality(StoreIds) + 1     \* an id get_template() never finds
AllIds == StoreIds \cup {UnknownId}
None == [none |-> TRUE]

VARIABLES
  templates,          \* agent_template_service.templates: id -> template
  template_ids,       \* the requested list of the batch
  batch_templates,    \* the local dict `templates` of the batch (id -> template)
  exec_pc,            \* position of execute_multiple_templates
  execution_stages,   \* the stages found by the topological sort
  stage,              \* index of the stage being executed (1-based)
  tasks,              \* per requested id: the execute_agent_template task
  executed_results,   \* id -> AgentExecutionResult (dict of the batch)
  returned,           \* the list execute_multiple_templates returned
  llm_calls           \* number of llm_manager.generate calls issued so far

exec_vars == <<templates, template_ids, batch_templates, exec_pc,
               execution_stages, stage, tasks, executed_results, returned,
               llm_calls>>

VARIABLES
  now,                \* int(datetime.now().timestamp())
  active_pipelines,   \* pipeline_id -> the job dict it holds (index in jobs)
  jobs,               \* the job dicts, in the order start_pipeline made them
  runs,               \* the _run_pipeline task of each start_pipeline call
  files_on_disk,        \* the story files on disk: <<pipeline_id, epic_number>>
  plans               \* the final files on disk: pipeline_id -> its sections

pipe_vars == <<now, active_pipelines, jobs, runs, files_on_disk, plans>>

VARIABLES
  download            \* the last get_download_file call and what it returned

query_vars == <<download>>

VARIABLES
  response_text,      \* a response text handed to _extract_questions
  questions,          \* what _extract_questions returned for it
  word_counts,        \* the word counts of two response texts
  confidences         \* what _calculate_confidence returned for them

fn_vars == <<response_text, questions, word_counts, confidences>>

VARIABLES
  providers,          \* llm_manager.providers, in insertion order
  llm_result,         \* the last registry call and its outcome
  generate_calls      \* provider -> number of generate calls it received

llm_vars == <<providers, llm_result, generate_calls>>

VARIABLES
  active_templates,   \* agent_template_service.active_templates, a list of ids
  created             \* number of ids create/duplicate_template have minted

store_vars == <<active_templates, created>>

VARIABLES
  user_input,         \* the request handed to the HandoffCoordinator
  current_agent,      \* the agent the conversation is with
  decision,           \* the HandoffDecision of evaluate_handoff_needs
  assignments,        \* the decision create_workload_assignments was given
                      \* and the WorkloadAssignment list it returned
  agent_responses,    \* the AgentResponse list handed to synthesize_responses
  synthesis           \* what synthesize_responses returned

hand_vars == <<user_input, current_agent, decision, assignments,
               agent_responses, synthesis>>

aux_vars == <<store_vars, hand_vars>>

other_than_exec == <<pipe_vars, query_vars, fn_vars, llm_vars, aux_vars>>
other_than_pipe == <<exec_vars, query_vars, fn_vars, llm_vars, aux_vars>>

vars == <<exec_vars, pipe_vars, query_vars, fn_vars, llm_vars, aux_vars>>

\* the providers of the LLMProvider enum
ProviderNames == {"openai", "deepseek", "kimi"}

\* ---------------------------------------------------------------- helpers
Range(s) == {s[i] : i \in 1..Len(s)}

RECURSIVE SetToSortedSeq(_)
\* sorted(list(S)) for a set of ids
SetToSortedSeq(S) ==
  IF S = {} THEN <<>>
  ELSE LET m == CHOOSE x \in S : \A y \in S : x <= y
       IN <<m>> \o SetToSortedSeq(S \ {m})

RECURSIVE SeqSum(_)
SeqSum(s) == IF s = <<>> THEN 0 ELSE Len(Head(s)) + SeqSum(Tail(s))

\* every sequence without repetition over S of length 0..n
UniqueSeqs(S, n) ==
  {s \in UNION {[1..k -> S] : k \in 0..n} :
      \A i, j \in 1..Len(s) : i # j => s[i] # s[j]}

\* ------------------------------------------------------- the template store
\* template.type, as far as execute_agent_template dispatches on it
TemplateType(id) ==
  CASE id = 1 -> "rerun"
    [] id = 2 -> "questions"
    [] OTHER  -> "standard"

\* agent_template_service.get_template
get_template(tid) ==
  IF tid \in DOMAIN templates THEN templates[tid] ELSE None

\* getattr(template, 'depends_on', []) or []
Dependencies(template) ==
  IF template = None THEN {} ELSE template.depends_on

\* ------------------------------------------------- results and LLM responses
\* word counts of the responses the provider may return
ResponseWords == {100, 301}

Pending == [st |-> "pending", words |-> 0]
Raised == [st |-> "error", words |-> 0]     \* llm_manager.generate raised

\* what one llm_manager.generate call of an agent of this type may come to
\* (the word count matters to the standard agent only)
Responses(type) ==
  {Raised} \cup
  (IF type = "standard"
     THEN {[st |-> "ok", words |-> w] : w \in ResponseWords}
     ELSE {[st |-> "ok", words |-> 100]})

\* what one variation call may come to, the empty text included
VariationResponses ==
  {Raised, [st |-> "ok", words |-> 0], [st |-> "ok", words |-> 100]}

\* mutant: the band boundaries are inclusive
_calculate_confidenceInclusive(word_count) ==
  IF word_count >= 300 THEN 90
  ELSE IF word_count >= 200 THEN 80
  ELSE IF word_count >= 100 THEN 70
  ELSE 60

\* _calculate_confidence, in hundredths
_calculate_confidence(word_count) ==
  IF word_count > 300 THEN 90
  ELSE IF word_count > 200 THEN 80
  ELSE IF word_count > 100 THEN 70
  ELSE 60

\* _get_single_response: the response text ("" when it has no word), or
\* "Error getting response: ..."
_get_single_response(call) ==
  IF call.st = "ok" THEN (IF call.words = 0 THEN "" ELSE "text") ELSE "error"

\* AgentExecutionResult; content.kind "error" is the text "Error executing ..."
Result(tid, kind, parts, conf) ==
  [template_id |-> tid,
   content |-> [kind |-> kind, parts |-> parts],
   rerun_results |-> parts,
   confidence_level |-> conf]

\* _execute_standard_agent once its generate call has settled
_execute_standard_agent(tid, calls) ==
  IF calls[1].st = "ok"
    THEN Result(tid, "text", <<>>, _calculate_confidence(calls[1].words))
    ELSE Result(tid, "error", <<>>, 0)

\* _execute_questions_agent once its generate call has settled
_execute_questions_agent(tid, calls) ==
  IF calls[1].st = "ok"
    THEN Result(tid, "text", <<>>, 85)
    ELSE Result(tid, "error", <<>>, 0)

\* mutant: the entries are the bare responses, without the "Analysis #i:" line
_execute_rerun_agentBare(tid, calls) ==
  Result(tid, "combined",
         [i \in 1..Len(calls) |->
            [label |-> "", n |-> i, body |-> _get_single_response(calls[i])]],
         90)

\* _execute_rerun_agent once the gather of its variations has settled: every
\* _get_single_response returns a string, so the except branch is not taken;
\* entry i is f"Analysis #{i+1}:\n{resp}"
_execute_rerun_agent(tid, calls) ==
  Result(tid, "combined",
         [i \in 1..Len(calls) |->
            [label |-> "Analysis #", n |-> i,
             body |-> _get_single_response(calls[i])]],
         90)

\* the type dispatch at the end of execute_agent_template
AgentResult(tid, type, calls) ==
  CASE type = "rerun"     -> _execute_rerun_agent(tid, calls)
    [] type = "questions" -> _execute_questions_agent(tid, calls)
    [] OTHER              -> _execute_standard_agent(tid, calls)

\* number of generate calls the agent issues when it starts
NumCalls(type) == IF type = "rerun" THEN NumVariations ELSE 1

\* the text of a result carries an error message
HasErrorMessage(content) ==
  \/ content.kind = "error"
  \/ \E i \in 1..Len(content.parts) : content.parts[i].body = "error"

\* ------------------------------------------------------ question extraction
\* a text is the sequence of its lines (content.split('\n')), a line the
\* sequence of its characters
RECURSIVE LStrip(_)
\* the line without its leading blanks
LStrip(line) ==
  IF line # <<>> /\ Head(line) = " " THEN LStrip(Tail(line)) ELSE line

RECURSIVE RStrip(_)
\* the line without its trailing blanks
RStrip(line) ==
  IF line # <<>> /\ line[Len(line)] = " "
    THEN RStrip(SubSeq(line, 1, Len(line) - 1))
    ELSE line

\* line.strip()
Strip(line) == RStrip(LStrip(line))

\* '?' in line
HasQuestionMark(line) == \E i \in 1..Len(line) : line[i] = "?"

RECURSIVE SplitHead(_, _)
\* line.split(sep)[0]: the characters before the first sep
SplitHead(line, sep) ==
  IF line = <<>> \/ Head(line) = sep THEN <<>>
  ELSE <<Head(line)>> \o SplitHead(Tail(line), sep)

RECURSIVE QuestionLoop(_, _)
\* the loop of _extract_questions over the lines (lines 336-341)
QuestionLoop(lines, found) ==
  IF lines = <<>> THEN found
  ELSE LET line == Strip(Head(lines))
       IN QuestionLoop(Tail(lines),
            IF HasQuestionMark(line) /\ Len(line) > MinQuestionLen
              THEN Append(found, SplitHead(line, "?") \o <<"?">>)
              ELSE found)

\* mutant: the list is returned without the cut to 10
_extract_questionsUncapped(text) == QuestionLoop(text, <<>>)

\* _extract_questions: questions[:10]
_extract_questions(text) ==
  LET found == QuestionLoop(text, <<>>)
  IN SubSeq(found, 1, IF Len(found) < MaxQuestions THEN Len(found)
                      ELSE MaxQuestions)

\* the lines the texts are made of:
\*   "  is it fast? or?"  (15 characters once stripped, two question marks)
\*   "  are we ok? "      (10 characters once stripped)
\*   "no question"        (11 characters, no question mark)
LineSamples ==
  { <<" ", " ", "i", "s", " ", "i", "t", " ", "f", "a", "s", "t", "?", " ",
      "o", "r", "?">>,
    <<" ", " ", "a", "r", "e", " ", "w", "e", " ", "o", "k", "?", " ">>,
    <<"n", "o", " ", "q", "u", "e", "s", "t", "i", "o", "n">> }

\* the texts handed to _extract_questions
ResponseTexts == UNION {[1..k -> LineSamples] : k \in 0..MaxTextLines}

\* _extract_questions is applied to the text
ExtractQuestions ==
  /\ questions = None
  /\ questions' = [returned |-> _extract_questions(response_text)]
  /\ UNCHANGED <<response_text, word_counts, confidences>>
  /\ UNCHANGED <<exec_vars, pipe_vars, query_vars, llm_vars, aux_vars>>

\* _calculate_confidence is applied to two texts, given by their word counts
\* (len(content.split()))
CalculateConfidence ==
  /\ confidences = None
  /\ confidences' = [returned |-> <<_calculate_confidence(word_counts[1]),
                                    _calculate_confidence(word_counts[2])>>]
  /\ UNCHANGED <<response_text, questions, word_counts>>
  /\ UNCHANGED <<exec_vars, pipe_vars, query_vars, llm_vars, aux_vars>>

\* --------------------------------------------- dependency graph and stages
\* graph[dep_id].add(tid): edges restricted to the requested ids
graph(tids, tmpl) ==
  [u \in Range(tids) |->
     {t \in Range(tids) : u \in Dependencies(tmpl[t])}]

\* mutant: every dependency counts, in the selection or not
in_degreeAll(tids, tmpl) ==
  [t \in Range(tids) |-> Cardinality(Dependencies(tmpl[t]))]

\* in_degree[tid] += 1 for every dependency that is in the selection
in_degree(tids, tmpl) ==
  [t \in Range(tids) |-> Cardinality(Dependencies(tmpl[t]) \cap Range(tids))]

RECURSIVE ProcessEdges(_, _)
\* for v in sorted(list(graph[u])): in_degree[v] -= 1; maybe next_queue.append(v)
ProcessEdges(vs, st) ==
  IF vs = <<>> THEN st
  ELSE LET v == Head(vs)
           d == st.deg[v] - 1
       IN ProcessEdges(Tail(vs),
            [deg |-> [st.deg EXCEPT ![v] = d],
             nq  |-> IF d = 0 THEN Append(st.nq, v) ELSE st.nq])

RECURSIVE ProcessQueue(_, _, _)
\* for u in queue: ...
ProcessQueue(q, g, st) ==
  IF q = <<>> THEN st
  ELSE ProcessQueue(Tail(q), g, ProcessEdges(SetToSortedSeq(g[Head(q)]), st))

RECURSIVE KahnLoop(_, _, _, _)
\* while queue: execution_stages.append(queue); ...; queue = next_queue
KahnLoop(q, g, deg, stages) ==
  IF q = <<>> THEN stages
  ELSE LET st == ProcessQueue(q, g, [deg |-> deg, nq |-> <<>>])
       IN KahnLoop(st.nq, g, st.deg, Append(stages, q))

\* the execution stages of a request (topological sort, Kahn's algorithm)
Stages(tids, tmpl) ==
  LET deg == in_degree(tids, tmpl)
      q0 == SelectSeq(tids, LAMBDA t : deg[t] = 0)
  IN KahnLoop(q0, graph(tids, tmpl), deg, <<>>)

\* mutant: the cycle check compares with the wrong length
CycleDetectedOffByOne(stages, tids) == SeqSum(stages) > Len(tids)

\* the cycle check of line 403
CycleDetected(stages, tids) == SeqSum(stages) # Len(tids)

\* mutant: only the results of agents that succeeded are handed on
DependencyOutputsSkipFailed(template, results) ==
  LET deps == SetToSortedSeq({d \in Dependencies(template) \cap DOMAIN results :
                                results[d].confidence_level > 0})
  IN [i \in 1..Len(deps) |-> results[deps[i]]]

\* mutant: every result of the earlier stages is handed on
DependencyOutputsAll(template, results) ==
  LET deps == SetToSortedSeq(DOMAIN results)
  IN [i \in 1..Len(deps) |-> results[deps[i]]]

\* dependency_outputs of one agent: the results of its dependencies that have
\* been executed, in the order of its dependency list
DependencyOutputs(template, results) ==
  LET deps == SetToSortedSeq(Dependencies(template) \cap DOMAIN results)
  IN [i \in 1..Len(deps) |-> results[deps[i]]]

\* ------------------------------------------------------------ the executor
NoTask == [state |-> "none", context |-> <<>>, calls |-> <<>>,
           result |-> None, raised |-> FALSE]

RECURSIVE EdgeSets(_)
\* every set of at most k (dependency, template) pairs
EdgeSets(k) ==
  IF k = 0 THEN {{}}
  ELSE LET S == EdgeSets(k - 1)
       IN S \cup {s \cup {p} : s \in S, p \in StoreIds \X StoreIds}

\* the store whose depends_on lists are given by a set of pairs
StoreOf(E) ==
  [t \in StoreIds |->
     [id |-> t, type |-> TemplateType(t),
      depends_on |-> {d \in StoreIds : <<d, t>> \in E},
      is_active |-> TRUE, is_custom |-> FALSE]]

\* the executor before a batch
ExecIdle(store, tids) ==
  /\ templates = store
  /\ template_ids = tids
  /\ batch_templates = <<>>
  /\ exec_pc = "start"
  /\ execution_stages = <<>>
  /\ stage = 0
  /\ tasks = [t \in AllIds |-> NoTask]
  /\ executed_results = <<>>
  /\ returned = <<>>
  /\ llm_calls = 0

\* lines 409-429: the tasks of a stage, each with its execution context
ScheduleStage(stg, tmpl, results) ==
  [t \in AllIds |->
     IF t \in Range(stg)
       THEN [NoTask EXCEPT !.state = "scheduled",
                           !.context = DependencyOutputs(tmpl[t], results)]
       ELSE tasks[t]]

RECURSIVE Flatten(_)
Flatten(ss) == IF ss = <<>> THEN <<>> ELSE Head(ss) \o Flatten(Tail(ss))

\* mutant: the results in the order the stages ran
ReturnListStageOrder(tids, results) ==
  LET kept == SelectSeq(Flatten(execution_stages), LAMBDA t : t \in DOMAIN results)
  IN [i \in 1..Len(kept) |-> results[kept[i]]]

\* line 439: the results in the requested order
ReturnList(tids, results) ==
  LET kept == SelectSeq(tids, LAMBDA t : t \in DOMAIN results)
  IN [i \in 1..Len(kept) |-> results[kept[i]]]

\* mutant: only the first requested id is looked up before the stages run
MissingIdsFirstOnly(tids) ==
  IF tids = <<>> THEN {} ELSE {t \in {tids[1]} : get_template(t) = None}

\* lines 371-374: the requested ids the store does not hold
MissingIds(tids) == {t \in Range(tids) : get_template(t) = None}

\* execute_multiple_templates from its call to its first await (lines 370-432),
\* or to its end when it raises or has no stage to run
ExecStart ==
  /\ exec_pc = "start"
  /\ IF MissingIds(template_ids) # {}
       THEN /\ exec_pc' = "error_not_found"
            /\ UNCHANGED <<batch_templates, execution_stages, stage, tasks,
                           returned>>
       ELSE LET tmpl == [t \in Range(template_ids) |-> get_template(t)]
                stages == Stages(template_ids, tmpl)
            IN /\ batch_templates' = tmpl
               /\ execution_stages' = stages
               /\ IF CycleDetected(stages, template_ids)
                    THEN /\ exec_pc' = "error_cycle"
                         /\ UNCHANGED <<stage, tasks, returned>>
                    ELSE IF stages = <<>>
                      THEN /\ exec_pc' = "returned"
                           /\ returned' = ReturnList(template_ids, executed_results)
                           /\ UNCHANGED <<stage, tasks>>
                      ELSE /\ exec_pc' = "gather"
                           /\ stage' = 1
                           /\ tasks' = ScheduleStage(stages[1], tmpl,
                                                     executed_results)
                           /\ UNCHANGED returned
  /\ UNCHANGED <<templates, template_ids, executed_results, llm_calls>>
  /\ UNCHANGED other_than_exec

\* the first step of every task of the stage, in the order gather scheduled
\* them: execute_agent_template up to its generate call(s) (lines 25-84)
ExecStageRun ==
  /\ exec_pc = "gather"
  /\ LET stg == Range(execution_stages[stage])
         found == {t \in stg : get_template(t) # None}
     IN /\ tasks' = [t \in AllIds |->
                       IF t \notin stg THEN tasks[t]
                       ELSE IF t \notin found
                         THEN [tasks[t] EXCEPT !.state = "done", !.raised = TRUE]
                         ELSE [tasks[t] EXCEPT
                                 !.state = "running",
                                 !.calls = [i \in 1..NumCalls(get_template(t).type)
                                               |-> Pending]]]
        /\ llm_calls' = llm_calls + NumVariations * Cardinality({t \in found :
                                        get_template(t).type = "rerun"})
                                  + Cardinality({t \in found :
                                        get_template(t).type # "rerun"})
  /\ exec_pc' = "waiting"
  /\ UNCHANGED <<templates, template_ids, batch_templates, execution_stages,
                 stage, executed_results, returned>>
  /\ UNCHANGED other_than_exec

\* one llm_manager.generate call of agent t settles; with its last call the
\* agent builds its AgentExecutionResult
LLMReturn(t, i, r) ==
  /\ tasks[t].state = "running"
  /\ i \in 1..Len(tasks[t].calls)
  /\ tasks[t].calls[i] = Pending
  /\ LET calls == [tasks[t].calls EXCEPT ![i] = r]
         settled == \A j \in 1..Len(calls) : calls[j] # Pending
     IN tasks' = [tasks EXCEPT
                    ![t].calls = calls,
                    ![t].state = IF settled THEN "done" ELSE "running",
                    ![t].result = IF settled
                                    THEN AgentResult(t, TemplateType(t), calls)
                                    ELSE None]
  /\ UNCHANGED <<templates, template_ids, batch_templates, exec_pc,
                 execution_stages, stage, executed_results, returned, llm_calls>>
  /\ UNCHANGED other_than_exec

\* mutant: the gather resumes with the first result (asyncio.wait FIRST_COMPLETED)
StageAnySettled(stg) == \E t \in stg : tasks[t].state = "done"

\* asyncio.gather(*tasks) of a stage has every result
StageSettled(stg) == \A t \in stg : tasks[t].state = "done"

\* the gather of a stage resumes the batch (lines 432-439): an exception of a
\* task is raised to the caller; otherwise the results are stored and the
\* next stage is scheduled, or the list is returned
ExecStageGathered ==
  /\ exec_pc = "waiting"
  /\ LET stg == Range(execution_stages[stage])
     IN IF \E t \in stg : tasks[t].raised
          THEN /\ exec_pc' = "error_not_found"
               /\ UNCHANGED <<stage, tasks, executed_results, returned>>
          ELSE /\ StageSettled(stg)
               /\ LET results == [t \in DOMAIN executed_results \cup stg |->
                                    IF t \in stg THEN tasks[t].result
                                    ELSE executed_results[t]]
                  IN /\ executed_results' = results
                     /\ IF stage < Len(execution_stages)
                          THEN /\ stage' = stage + 1
                               /\ tasks' = ScheduleStage(execution_stages[stage + 1],
                                                         batch_templates, results)
                               /\ exec_pc' = "gather"
                               /\ UNCHANGED returned
                          ELSE /\ returned' = ReturnList(template_ids, results)
                               /\ exec_pc' = "returned"
                               /\ UNCHANGED <<stage, tasks>>
  /\ UNCHANGED <<templates, template_ids, batch_templates, execution_stages,
                 llm_calls>>
  /\ UNCHANGED other_than_exec

NextExec ==
  \/ ExecStart
  \/ ExecStageRun
  \/ \E t \in AllIds, i \in 1..NumVariations :
       \E r \in Responses(TemplateType(t)) : LLMReturn(t, i, r)
  \/ ExecStageGathered

\* ------------------------------------------------------------ the pipeline
Sessions == {"s1"}

\* a line of the epic generator's text, as _extract_epics_from_result sees it:
\* a header with a title ("EPIC 1: Login"), a header whose title is empty
\* once '**', 'EPIC' and ':' are removed ("**EPIC**"), another line, or an
\* empty line
LineKinds == {"header", "header_no_title", "text", "blank"}
EpicTexts == UNION {[1..k -> LineKinds] : k \in 0..MaxLines}

RECURSIVE ExtractLoop(_, _, _, _)
\* the loop of _extract_epics_from_result; current_epic is "" for None or ''
ExtractLoop(lines, current_epic, current_content, epics) ==
  IF lines = <<>>
    THEN IF current_epic # ""
           THEN Append(epics, [title |-> current_epic, content |-> current_content])
           ELSE epics
  ELSE LET line == Head(lines)
       IN IF line \in {"header", "header_no_title"}
            THEN ExtractLoop(Tail(lines),
                             IF line = "header" THEN "title" ELSE "",
                             0,
                             IF current_epic # ""
                               THEN Append(epics, [title |-> current_epic,
                                                   content |-> current_content])
                               ELSE epics)
            ELSE ExtractLoop(Tail(lines), current_epic,
                             IF current_epic # "" /\ line = "text"
                               THEN current_content + 1 ELSE current_content,
                             epics)

\* _extract_epics_from_result: the epics (title, number of content lines)
_extract_epics_from_result(content) == ExtractLoop(content, "", 0, <<>>)

\* what the provider call of the epic generator may come to
EpicResponses ==
  {[raised |-> FALSE, lines |-> t] : t \in EpicTexts}
    \cup {[raised |-> TRUE, lines |-> <<>>]}

\* the content of the epic generator's result: the response text, or the one
\* line "Error executing agent: ..." of a degraded result
EpicsContent(resp) == IF resp.raised THEN <<"text">> ELSE resp.lines

\* pipeline_id = f"pipeline_{session_id}_{int(datetime.now().timestamp())}"
PipelineId(session_id, t) == <<session_id, t>>

\* the job dict start_pipeline puts in the table
NewJob(session_id, context_ok) ==
  [status |-> "starting",
   session_id |-> session_id,
   context_ok |-> context_ok,
   epics_file |-> FALSE,
   stories_files |-> <<>>,
   final_file |-> FALSE,
   error |-> "",
   progress |-> [epics |-> "pending", stories |-> "pending", merge |-> "pending"],
   log |-> <<"starting">>]

\* the task asyncio.create_task(self._run_pipeline(pipeline_id)) makes; its
\* pc ends "completed" (it ran to line 126) or "failed" (it took the except
\* branch); pipeline is the job dict line 64 bound; no_header tells that the
\* epic generator's text was saved and has no titled EPIC header, merging
\* that the run reached the merge step
NewRun(pipeline_id) ==
  [pipeline_id |-> pipeline_id, pc |-> "created", pipeline |-> 0,
   epics |-> 0, story |-> <<>>, out_of_order |-> FALSE, sections |-> <<>>,
   no_header |-> FALSE, merging |-> FALSE]

\* pipeline["status"] = value, on the dict job
SetStatus(job, value) ==
  [job EXCEPT !.status = value, !.log = Append(job.log, value)]

\* the except branch of _run_pipeline (lines 128-131): it writes to the dict
\* the table holds for the id
Failed(js, pipeline_id, message) ==
  [js EXCEPT ![active_pipelines[pipeline_id]] =
     [SetStatus(@, "failed") EXCEPT !.error = message]]

\* lines 97-103: one story task per epic, numbered from 1
StoryTasks(epics) == [i \in 1..Len(epics) |-> "created"]

\* mutant: the story tasks are awaited one after the other, so only the first
\* has issued its call when the pipeline waits
GatherOneByOne(story) ==
  [i \in 1..Len(story) |-> IF i = 1 THEN "running" ELSE story[i]]

\* asyncio.gather(*story_tasks): every task runs to its provider call
GatherAll(story) == [i \in 1..Len(story) |-> "running"]

RECURSIVE SetToDescendingSeq(_)
\* mutant: the sections are written in descending epic number
SetToDescendingSeq(S) ==
  IF S = {} THEN <<>>
  ELSE LET m == CHOOSE x \in S : \A y \in S : x >= y
       IN <<m>> \o SetToDescendingSeq(S \ {m})

\* sorted(stories_data.keys())
SortedKeys(S) == SetToSortedSeq(S)

\* _merge_development_plan: the epic numbers of the sections of the plan, as
\* read back from the story files
_merge_development_plan(pipeline_id, stories_files) ==
  SortedKeys({i \in Range(stories_files) : <<pipeline_id, i>> \in files_on_disk})

\* the pipeline service after construction (lines 18-24)
PipeIdle ==
  /\ now = 0
  /\ active_pipelines = <<>>
  /\ jobs = <<>>
  /\ runs = <<>>
  /\ files_on_disk = {}
  /\ plans = <<>>

\* the clock moves on by a second
Tick ==
  /\ now < MaxTime
  /\ now' = now + 1
  /\ UNCHANGED <<active_pipelines, jobs, runs, files_on_disk, plans>>
  /\ UNCHANGED other_than_pipe

\* start_pipeline (lines 26-58)
start_pipeline(session_id, context_ok) ==
  /\ Len(jobs) < MaxJobs
  /\ LET pipeline_id == PipelineId(session_id, now)
     IN /\ jobs' = Append(jobs, NewJob(session_id, context_ok))
        /\ active_pipelines' =
             [id \in DOMAIN active_pipelines \cup {pipeline_id} |->
                IF id = pipeline_id THEN Len(jobs) + 1 ELSE active_pipelines[id]]
        /\ runs' = Append(runs, NewRun(pipeline_id))
  /\ UNCHANGED <<now, files_on_disk, plans>>
  /\ UNCHANGED other_than_pipe

\* _run_pipeline from its start to the await of _generate_epics (lines 63-75);
\* a context execute_agent_template cannot format makes _generate_epics
\* return None without a call to the provider
RunBegin(k) ==
  /\ k \in 1..Len(runs)
  /\ runs[k].pc = "created"
  /\ LET pid == runs[k].pipeline_id
         h == active_pipelines[pid]
         started == [jobs EXCEPT ![h] =
                       [SetStatus(@, "generating_epics") EXCEPT
                          !.progress.epics = "running"]]
     IN IF jobs[h].context_ok
          THEN /\ jobs' = started
               /\ runs' = [runs EXCEPT ![k].pc = "epics_wait", ![k].pipeline = h]
          ELSE /\ jobs' = Failed(started, pid, "Failed to generate epics")
               /\ runs' = [runs EXCEPT ![k].pc = "failed", ![k].pipeline = h]
  /\ UNCHANGED <<now, active_pipelines, files_on_disk, plans>>
  /\ UNCHANGED other_than_pipe

\* the epic generator's call settles; _run_pipeline goes on to the gather of
\* the story tasks (lines 77-106) or raises
EpicsReturn(k, resp, io_ok) ==
  /\ k \in 1..Len(runs)
  /\ runs[k].pc = "epics_wait"
  /\ LET pid == runs[k].pipeline_id
         h == runs[k].pipeline
         epics == _extract_epics_from_result(EpicsContent(resp))
         saved == [jobs EXCEPT ![h].epics_file = TRUE,
                               ![h].progress.epics = "completed"]
         no_header == \A n \in 1..Len(EpicsContent(resp)) :
                         EpicsContent(resp)[n] # "header"
     IN IF ~io_ok
          THEN /\ jobs' = Failed(jobs, pid, "OSError")
               /\ runs' = [runs EXCEPT ![k].pc = "failed"]
          ELSE IF epics = <<>>
            THEN /\ jobs' = Failed(saved, pid, "No epics found in result")
                 /\ runs' = [runs EXCEPT ![k].pc = "failed",
                                         ![k].no_header = no_header]
            ELSE /\ jobs' = [saved EXCEPT ![h] =
                               [SetStatus(@, "generating_stories") EXCEPT
                                  !.progress.stories = "running"]]
                 /\ runs' = [runs EXCEPT
                               ![k].pc = "stories_gather",
                               ![k].no_header = no_header,
                               ![k].epics = Len(epics),
                               ![k].story = StoryTasks(epics)]
  /\ UNCHANGED <<now, active_pipelines, files_on_disk, plans>>
  /\ UNCHANGED other_than_pipe

\* the first step of every story task, in the order gather scheduled them:
\* _generate_stories_for_epic up to the provider call of its agent
StoriesRun(k) ==
  /\ k \in 1..Len(runs)
  /\ runs[k].pc = "stories_gather"
  /\ runs' = [runs EXCEPT ![k].pc = "stories_wait",
                          ![k].story = GatherAll(runs[k].story)]
  /\ UNCHANGED <<now, active_pipelines, jobs, files_on_disk, plans>>
  /\ UNCHANGED other_than_pipe

\* what becomes of one story task: the result of its agent (degraded or not)
\* saved to the story file, or an exception raised in the task, which the
\* task catches to return None
StoryOutcomes == {"saved", "raised"}

\* the provider call of story task i settles and the task ends (lines 229-250)
StoryReturn(k, i, outcome) ==
  /\ k \in 1..Len(runs)
  /\ i \in 1..Len(runs[k].story)
  /\ runs[k].story[i] = "running"
  /\ outcome \in StoryOutcomes
  /\ runs' = [runs EXCEPT
                ![k].story[i] = outcome,
                ![k].out_of_order =
                   @ \/ \E j \in 1..(i - 1) : runs[k].story[j] = "running"]
  /\ files_on_disk' = IF outcome = "raised" THEN files_on_disk
                      ELSE files_on_disk \cup {<<runs[k].pipeline_id, i>>}
  /\ UNCHANGED <<now, active_pipelines, jobs, plans>>
  /\ UNCHANGED other_than_pipe

\* mutant: the gather resumes with the first story task that ends
StoriesAnySettled(story) ==
  \E i \in 1..Len(story) : story[i] \in StoryOutcomes

\* asyncio.gather(*story_tasks) has the result of every story task
StoriesSettled(story) ==
  \A i \in 1..Len(story) : story[i] \in StoryOutcomes

\* the gather of the story tasks resumes _run_pipeline, which merges and ends
\* (lines 106-126), or raises when the final file cannot be written
StoriesGathered(k, io_ok) ==
  /\ k \in 1..Len(runs)
  /\ runs[k].pc = "stories_wait"
  /\ StoriesSettled(runs[k].story)
  /\ LET pid == runs[k].pipeline_id
         h == runs[k].pipeline
         files == SelectSeq([i \in 1..Len(runs[k].story) |-> i],
                            LAMBDA i : runs[k].story[i] # "raised")
         merging == [jobs EXCEPT ![h] =
                       [SetStatus([@ EXCEPT !.stories_files = files,
                                            !.progress.stories = "completed"],
                                  "merging") EXCEPT
                          !.progress.merge = "running"]]
         sections == _merge_development_plan(pid, files)
     IN IF io_ok
          THEN /\ plans' = [id \in DOMAIN plans \cup {pid} |->
                              IF id = pid THEN sections ELSE plans[id]]
               /\ jobs' = [merging EXCEPT ![h] =
                             SetStatus([@ EXCEPT !.final_file = TRUE,
                                                 !.progress.merge = "completed"],
                                       "completed")]
               /\ runs' = [runs EXCEPT ![k].pc = "completed",
                                       ![k].merging = TRUE,
                                       ![k].sections = sections]
          ELSE /\ jobs' = Failed(merging, pid, "OSError")
               /\ runs' = [runs EXCEPT ![k].pc = "failed",
                                       ![k].merging = TRUE]
               /\ UNCHANGED plans
  /\ UNCHANGED <<now, active_pipelines, files_on_disk>>
  /\ UNCHANGED other_than_pipe

\* pipeline.get("final_file"): the path of the plan, or None
FinalFile(job) ==
  IF job.final_file THEN [path |-> "development_plan.md"] ELSE None

\* mutant: the status of the job is not looked at
get_download_fileAnyStatus(pipeline_id) ==
  IF pipeline_id \in DOMAIN active_pipelines
    THEN FinalFile(jobs[active_pipelines[pipeline_id]])
    ELSE None

\* get_download_file (lines 326-331)
get_download_file(pipeline_id) ==
  IF /\ pipeline_id \in DOMAIN active_pipelines
     /\ jobs[active_pipelines[pipeline_id]].status = "completed"
    THEN FinalFile(jobs[active_pipelines[pipeline_id]])
    ELSE None

\* the ids a caller may ask for: those start_pipeline can make, made or not
PipelineIds == {PipelineId(s, t) : s \in Sessions, t \in 0..MaxTime}

\* a caller asks for the download of a job; the call is recorded with what
\* the table held for the id at that moment
Download(pipeline_id) ==
  /\ download' =
       [known |-> pipeline_id \in DOMAIN active_pipelines,
        status |-> IF pipeline_id \in DOMAIN active_pipelines
                     THEN jobs[active_pipelines[pipeline_id]].status
                     ELSE "",
        result |-> get_download_file(pipeline_id)]
  /\ UNCHANGED <<exec_vars, pipe_vars, fn_vars, llm_vars, aux_vars>>

NextPipe ==
  \/ Tick
  \/ \E session_id \in Sessions, context_ok \in BOOLEAN :
       start_pipeline(session_id, context_ok)
  \/ \E k \in 1..MaxJobs : RunBegin(k)
  \/ \E k \in 1..MaxJobs, resp \in EpicResponses, io_ok \in BOOLEAN :
       EpicsReturn(k, resp, io_ok)
  \/ \E k \in 1..MaxJobs : StoriesRun(k)
  \/ \E k \in 1..MaxJobs, i \in 1..MaxLines, outcome \in StoryOutcomes :
       StoryReturn(k, i, outcome)
  \/ \E k \in 1..MaxJobs, io_ok \in BOOLEAN : StoriesGathered(k, io_ok)

\* ------------------------------------------------------- the LLM registry
\* the order in which _initialize_providers fills self.providers
ProviderOrder == <<"openai", "deepseek", "kimi">>

\* model ids a caller may ask for and a catalog may list
ModelIds == {"gpt-4o-mini", "moonshot-v1-8k"}

\* no provider: None as a provider argument or result
NoProvider == "none"

\* self.providers after _initialize_providers: the providers whose key is
\* set, in the order of registration, each with the catalog its
\* get_available_models returns
Registries ==
  {SelectSeq([i \in 1..Len(ProviderOrder) |->
                [name |-> ProviderOrder[i], models |-> catalog[ProviderOrder[i]]]],
             LAMBDA p : p.name \in keys) :
     keys \in SUBSET ProviderNames,
     catalog \in [ProviderNames -> SUBSET ModelIds]}

\* BaseLLMProvider.validate_model
validate_model(provider, model) == model \in provider.models

RECURSIVE ScanLast(_, _, _)
\* mutant: the scan goes on after a match, so the last match is returned
ScanLast(provs, model_id, found) ==
  IF provs = <<>> THEN found
  ELSE ScanLast(Tail(provs), model_id,
                IF validate_model(Head(provs), model_id)
                  THEN Head(provs).name ELSE found)

RECURSIVE ScanProviders(_, _)
\* for provider_type, provider in self.providers.items(): ... return
ScanProviders(provs, model_id) ==
  IF provs = <<>> THEN NoProvider
  ELSE IF validate_model(Head(provs), model_id) THEN Head(provs).name
  ELSE ScanProviders(Tail(provs), model_id)

\* mutant of get_provider_for_model: the last provider that lists the model
get_provider_for_modelLast(model_id) == ScanLast(providers, model_id, NoProvider)

\* LLMManager.get_provider_for_model
get_provider_for_model(model_id) == ScanProviders(providers, model_id)

\* provider in self.providers
Registered(provider) ==
  \E i \in 1..Len(providers) : providers[i].name = provider

\* self.providers[provider]
ProviderInstance(provider) ==
  providers[CHOOSE i \in 1..Len(providers) : providers[i].name = provider]

\* the outcome of a registry generate call that reaches the provider
Handed(provider) == [error |-> "", provider |-> provider, available |-> {}]

\* mutant: the provider's catalog is not looked at before the call
GenerateOutcomeUnvalidated(model, provider) ==
  LET resolved == IF provider = NoProvider THEN get_provider_for_model(model)
                  ELSE provider
  IN IF resolved = NoProvider
       THEN [error |-> "No provider found for model", provider |-> NoProvider,
             available |-> {}]
     ELSE IF ~Registered(resolved)
       THEN [error |-> "Provider is not available", provider |-> resolved,
             available |-> {}]
     ELSE Handed(resolved)

\* LLMManager.generate up to the provider call (lines 84-98): the error it
\* raises, or the provider it hands the call to
GenerateOutcome(model, provider) ==
  LET resolved == IF provider = NoProvider THEN get_provider_for_model(model)
                  ELSE provider
  IN IF resolved = NoProvider
       THEN [error |-> "No provider found for model", provider |-> NoProvider,
             available |-> {}]
     ELSE IF ~Registered(resolved)
       THEN [error |-> "Provider is not available", provider |-> resolved,
             available |-> {}]
     ELSE IF ~validate_model(ProviderInstance(resolved), model)
       THEN [error |-> "Model not available for provider", provider |-> resolved,
             available |-> ProviderInstance(resolved).models]
     ELSE Handed(resolved)

\* the number of provider generate calls so far
TotalGenerateCalls ==
  generate_calls["openai"] + generate_calls["deepseek"] + generate_calls["kimi"]

\* a caller asks the registry which provider serves a model
GetProviderForModel(model_id) ==
  /\ llm_result' = [op |-> "get_provider_for_model", model |-> model_id,
                    provider |-> NoProvider,
                    calls_before |-> generate_calls,
                    outcome |-> [error |-> "",
                                 provider |-> get_provider_for_model(model_id),
                                 available |-> {}]]
  /\ UNCHANGED <<providers, generate_calls>>
  /\ UNCHANGED <<exec_vars, pipe_vars, query_vars, fn_vars, aux_vars>>

\* LLMManager.generate(messages, model, provider): it raises, or calls the
\* generate of the provider
Generate(model, provider) ==
  /\ TotalGenerateCalls < MaxGenerate
  /\ LET outcome == GenerateOutcome(model, provider)
     IN /\ llm_result' = [op |-> "generate", model |-> model,
                          provider |-> provider,
                          calls_before |-> generate_calls,
                          outcome |-> outcome]
        /\ generate_calls' =
             IF outcome.error = ""
               THEN [generate_calls EXCEPT ![outcome.provider] = @ + 1]
               ELSE generate_calls
  /\ UNCHANGED providers
  /\ UNCHANGED <<exec_vars, pipe_vars, query_vars, fn_vars, aux_vars>>

NextLLM ==
  \/ \E model_id \in ModelIds : GetProviderForModel(model_id)
  \/ \E model \in ModelIds, provider \in ProviderNames \cup {NoProvider} :
       Generate(model, provider)

\* ------------------------------------------------- the services at rest
\* no get_download_file call yet
QueryIdle == download = None

\* no text handed to the post-processing functions
FnIdle ==
  /\ response_text = <<>>
  /\ questions = None
  /\ word_counts = <<0, 0>>
  /\ confidences = None

\* the registry with the providers provs and no call yet
LLMIdle(provs) ==
  /\ providers = provs
  /\ llm_result = None
  /\ generate_calls = [p \in ProviderNames |-> 0]

\* lines 17-34 of agent_template_service.py: every default template is
\* active, in the order it was loaded, and no id has been minted
StoreIdle ==
  /\ active_templates = SetToSortedSeq(StoreIds)
  /\ created = 0

\* the coordinator before any call
HandIdle ==
  /\ user_input = [words |-> 0, keywords |-> {}]
  /\ current_agent = "ui_designer"
  /\ decision = None
  /\ assignments = None
  /\ agent_responses = <<>>
  /\ synthesis = None

AuxIdle == StoreIdle /\ HandIdle

\* everything but the executor at rest
RestIdleExec == PipeIdle /\ QueryIdle /\ FnIdle /\ LLMIdle(<<>>) /\ AuxIdle

\* everything but the pipeline at rest
RestIdlePipe ==
  ExecIdle(StoreOf({}), <<>>) /\ QueryIdle /\ FnIdle /\ LLMIdle(<<>>) /\ AuxIdle

\* ------------------------------------------------------- specifications
\* one batch of the executor against a store nothing else changes: any
\* store of at most MaxEdges dependencies, any request without repetition
InitExec ==
  \E E \in EdgeSets(MaxEdges), tids \in UniqueSeqs(AllIds, MaxRequest) :
    ExecIdle(StoreOf(E), tids) /\ RestIdleExec

SpecExec == InitExec /\ [][NextExec]_vars

\* one execution of the variation ("rerun") template, its five calls coming
\* to anything a call may come to
InitRerun == ExecIdle(StoreOf({}), <<1>>) /\ RestIdleExec

NextRerun ==
  \/ ExecStart
  \/ ExecStageRun
  \/ \E i \in 1..NumVariations, r \in VariationResponses : LLMReturn(1, i, r)
  \/ ExecStageGathered

SpecRerun == InitRerun /\ [][NextRerun]_vars

\* _extract_questions applied to any text of at most MaxTextLines lines
InitQuestions ==
  \E text \in ResponseTexts :
    /\ response_text = text
    /\ questions = None
    /\ word_counts = <<0, 0>>
    /\ confidences = None
    /\ ExecIdle(StoreOf({}), <<>>) /\ PipeIdle /\ QueryIdle /\ LLMIdle(<<>>) /\ AuxIdle

NextQuestions == ExtractQuestions

SpecQuestions == InitQuestions /\ [][NextQuestions]_vars

\* _calculate_confidence applied to any two texts of at most MaxWords words
InitConfidence ==
  \E a, b \in 0..MaxWords :
    /\ word_counts = <<a, b>>
    /\ confidences = None
    /\ response_text = <<>>
    /\ questions = None
    /\ ExecIdle(StoreOf({}), <<>>) /\ PipeIdle /\ QueryIdle /\ LLMIdle(<<>>) /\ AuxIdle

NextConfidence == CalculateConfidence

SpecConfidence == InitConfidence /\ [][NextConfidence]_vars

\* the registry with any set of providers registered, any catalogs
InitLLM ==
  \E provs \in Registries :
    /\ LLMIdle(provs) /\ ExecIdle(StoreOf({}), <<>>) /\ PipeIdle /\ QueryIdle
    /\ FnIdle /\ AuxIdle

SpecLLM == InitLLM /\ [][NextLLM]_vars

\* the pipeline service: jobs started at any time, their background tasks
\* interleaved at their awaits
InitPipe == PipeIdle /\ RestIdlePipe

SpecPipe == InitPipe /\ [][NextPipe]_vars

\* the pipeline service with callers asking for downloads at any time
NextDownload ==
  \/ NextPipe
  \/ \E pipeline_id \in PipelineIds : Download(pipeline_id)

SpecDownload == InitPipe /\ [][NextDownload]_vars

\* ------------------------------------------------- claims on the executor
Requested == Range(template_ids)
AllKnown == \A t \in Requested : t \in DOMAIN templates

\* the dependency relation restricted to the requested ids has a cycle:
\* some requested id reaches itself along depends_on entries
HasCycle ==
  \E k \in 1..Cardinality(Requested) :
    \E p \in [1..(k + 1) -> Requested] :
      /\ p[1] = p[k + 1]
      /\ \A i \in 1..k : p[i] \in Dependencies(get_template(p[i + 1]))

\* the stage an agent runs in (0: none)
StageOf(t) ==
  IF \E n \in 1..Len(execution_stages) : t \in Range(execution_stages[n])
    THEN CHOOSE n \in 1..Len(execution_stages) : t \in Range(execution_stages[n])
    ELSE 0

\* some generate call of agent t raised
CallRaised(t) ==
  \E i \in 1..Len(tasks[t].calls) : tasks[t].calls[i] = Raised

\* the agent has issued its generate call(s)
Issued(t) == tasks[t].calls # <<>>

\* C1: a request of known ids whose dependencies form a DAG never ends in an
\* error, and the list it returns has one result per requested id, the i-th
\* being the result of the i-th requested id, whatever the stage order.
C1_ResultsInRequestOrder ==
  /\ (AllKnown /\ ~HasCycle) => exec_pc \notin {"error_cycle", "error_not_found"}
  /\ exec_pc = "returned" =>
       /\ Len(returned) = Len(template_ids)
       /\ \A i \in 1..Len(template_ids) :
            returned[i].template_id = template_ids[i]

C1_Witness ==
  /\ exec_pc = "returned"
  /\ Len(execution_stages) >= 2
  /\ template_ids[1] \notin Range(execution_stages[1])

\* C2: a request of known ids with a cycle among them (a self-dependency
\* included) fails with the circular-dependency error, and no LLM call has
\* been issued.
C2_CycleFailsBeforeAnyCall ==
  (AllKnown /\ HasCycle /\ exec_pc # "start") =>
     /\ exec_pc = "error_cycle"
     /\ llm_calls = 0
     /\ \A t \in AllIds : tasks[t].state = "none"

C2_Witness ==
  /\ exec_pc = "error_cycle"
  /\ \E t \in Requested : t \notin Dependencies(templates[t])

\* C3: a request with an id the store does not hold fails with
\* template-not-found before any LLM call, also for the ids that exist.
C3_UnknownIdFailsBeforeAnyCall ==
  (~AllKnown /\ exec_pc # "start") =>
     /\ exec_pc = "error_not_found"
     /\ llm_calls = 0
     /\ \A t \in AllIds : tasks[t].state = "none"

C3_Witness ==
  /\ exec_pc = "error_not_found"
  /\ \E t \in Requested : t \in DOMAIN templates
  /\ template_ids[1] \in DOMAIN templates

\* C4: when A depends on B, both requested, and a generate call of B raised,
\* the batch goes on: A runs in a later stage than B, the context it is given
\* holds B's result and that result's content carries the error message, and
\* A's result is in the returned list.
C4_DownstreamGetsDegraded ==
  \A A, B \in Requested :
    (/\ A # B
     /\ B \in Dependencies(get_template(A))
     /\ tasks[B].state = "done"
     /\ CallRaised(B)) =>
       /\ exec_pc \notin {"error_cycle", "error_not_found"}
       /\ tasks[A].state # "none" =>
            /\ StageOf(A) > StageOf(B)
            /\ \E i \in 1..Len(tasks[A].context) :
                 /\ tasks[A].context[i] = tasks[B].result
                 /\ tasks[A].context[i].template_id = B
                 /\ HasErrorMessage(tasks[A].context[i].content)
       /\ exec_pc = "returned" =>
            /\ tasks[A].state = "done"
            /\ \E i \in 1..Len(returned) : returned[i] = tasks[A].result

C4_Witness ==
  /\ exec_pc = "returned"
  /\ \E A, B \in Requested :
       /\ A # B
       /\ B \in Dependencies(templates[A])
       /\ CallRaised(B)
       /\ tasks[B].result.confidence_level = 0
       /\ tasks[A].state = "done"

\* C5 (as claimed): an agent of any type whose provider call raised does not
\* abort the batch, and its own result is degraded: confidence_level 0 and
\* the error message as content.
C5_RaisedCallGivesDegraded ==
  \A t \in Requested :
    (tasks[t].state = "done" /\ CallRaised(t)) =>
       /\ exec_pc \notin {"error_cycle", "error_not_found"}
       /\ tasks[t].result.confidence_level = 0
       /\ HasErrorMessage(tasks[t].result.content)

\* C6: no agent has issued its LLM call while an agent of an earlier stage
\* has not settled.
C6_StageBarrier ==
  \A a, b \in Requested :
    (Issued(a) /\ StageOf(b) < StageOf(a) /\ StageOf(b) > 0) =>
       tasks[b].state = "done"

C6_Witness ==
  \E a, b, c \in Requested :
    /\ a # b
    /\ StageOf(a) = 1 /\ StageOf(b) = 1 /\ StageOf(c) = 2
    /\ tasks[c].state = "running"

\* ------------------------------------------------- claims on the pipeline
\* the place of a status in starting -> ... -> completed
Rank(status) ==
  CASE status = "starting"           -> 0
    [] status = "generating_epics"   -> 1
    [] status = "generating_stories" -> 2
    [] status = "merging"            -> 3
    [] status = "completed"          -> 4
    [] OTHER                         -> 5

\* one change of status the state machine of a job allows
StatusStep(a, b) ==
  /\ a \notin {"completed", "failed"}
  /\ b = "failed" \/ Rank(b) = Rank(a) + 1

\* every status a job dict was given follows the one before
StatusOrder(job) ==
  \A n \in 1..(Len(job.log) - 1) : StatusStep(job.log[n], job.log[n + 1])

\* no two start_pipeline calls computed the same pipeline_id
NoCollision ==
  \A j, k \in 1..Len(runs) : j # k => runs[j].pipeline_id # runs[k].pipeline_id

\* C7 (as claimed): every change of a job's status follows starting ->
\* generating_epics -> generating_stories -> merging -> completed or goes to
\* failed; it never moves backward and never leaves completed or failed.
C7_StatusOrder == \A h \in 1..Len(jobs) : StatusOrder(jobs[h])

\* the order of C7 holds of the jobs whose pipeline_id no other job shares
StatusOrderWithoutCollision == NoCollision => C7_StatusOrder

\* a story task of the run ended with an exception
StoryRaised(k) ==
  \E i \in 1..Len(runs[k].story) : runs[k].story[i] = "raised"

\* C8 (as claimed): when story generation for an epic raised during the
\* generating_stories phase, the job ends failed with a non-empty error and
\* no final_file.
C8_StoryExceptionFailsJob ==
  \A k \in 1..Len(runs) :
    (runs[k].pc \in {"completed", "failed"} /\ StoryRaised(k)) =>
       /\ jobs[runs[k].pipeline].status = "failed"
       /\ jobs[runs[k].pipeline].error # ""
       /\ ~jobs[runs[k].pipeline].final_file

\* s lists numbers in ascending order
Ascending(s) == \A m, n \in 1..Len(s) : m < n => s[m] < s[n]

\* the epics whose story file the run saved
SavedEpics(k) == {i \in 1..Len(runs[k].story) : runs[k].story[i] = "saved"}

\* C9: the plan a run merged lists the epics whose stories were saved, each
\* once, in ascending epic number, whatever the order in which the story
\* calls completed; so does every final file on disk.
C9_SectionsAscending ==
  /\ \A k \in 1..Len(runs) :
       runs[k].pc = "completed" =>
          /\ Ascending(runs[k].sections)
          /\ Range(runs[k].sections) = SavedEpics(k)
  /\ \A id \in DOMAIN plans : Ascending(plans[id])

C9_Witness ==
  \E k \in 1..Len(runs) :
    /\ runs[k].pc = "completed"
    /\ runs[k].out_of_order
    /\ Len(runs[k].sections) >= 2
    /\ jobs[runs[k].pipeline].status = "completed"

\* C10: a run whose epic text parsed into N >= 1 epics has one story task for
\* each epic number 1..N, and every one of them has issued its call before
\* any of them has completed.
C10_StoryCallsConcurrent ==
  \A k \in 1..Len(runs) :
    runs[k].pc \in {"stories_gather", "stories_wait"} \/ runs[k].story # <<>> =>
       /\ runs[k].epics >= 1
       /\ DOMAIN runs[k].story = 1..runs[k].epics
       /\ (\E i \in DOMAIN runs[k].story : runs[k].story[i] \in StoryOutcomes)
            => \A j \in DOMAIN runs[k].story : runs[k].story[j] # "created"

C10_Witness ==
  \E k \in 1..Len(runs) :
    /\ runs[k].epics >= 2
    /\ runs[k].story[2] \in StoryOutcomes
    /\ runs[k].story[1] = "running"

\* the place of a phase value in pending -> running -> completed
PhaseRank(value) ==
  CASE value = "pending"   -> 0
    [] value = "running"   -> 1
    [] OTHER               -> 2

\* no phase entry of the map moved back from before to after
PhasesForward(before, after) ==
  \A phase \in {"epics", "stories", "merge"} :
    PhaseRank(after[phase]) >= PhaseRank(before[phase])

\* a phase has left pending only when the phase before it is completed
PhasesInOrder(progress) ==
  /\ progress.stories # "pending" => progress.epics = "completed"
  /\ progress.merge # "pending" => progress.stories = "completed"

\* one step keeps the progress map of every job moving forward and in order
ProgressStep ==
  \A h \in 1..Len(jobs) :
    /\ PhasesForward(jobs[h].progress, jobs'[h].progress)
    /\ PhasesInOrder(jobs'[h].progress)

\* C11 (as claimed): each phase entry of a job's progress map only moves
\* pending -> running -> completed and never returns to an earlier value, and
\* a later phase leaves pending only after the phase before it is completed.
C11_ProgressForward == [][ProgressStep]_vars

\* the progress of C11 holds as long as no two jobs share a pipeline_id
ProgressForwardWithoutCollision == [][NoCollision' => ProgressStep]_vars

\* C12: get_download_file returns a file path only when the table holds a job
\* for the id and that job's status is completed; for an unknown id and for
\* a job in any other status it returns none; for a completed job it does
\* return the path.
C12_DownloadOnlyWhenCompleted ==
  download # None =>
    (download.result # None <=> (download.known /\ download.status = "completed"))

C12_Witness ==
  /\ download # None
  /\ download.result # None
  /\ download.status = "completed"

\* story task i of the run has issued its provider call
StoryIssued(k, i) == runs[k].story[i] # "created"

\* C13: within a job, no story-generation call is issued before the epic
\* call has completed and its result is saved, and the merge step does not
\* start before every story-generation call of the job has settled.
C13_EpicsThenStoriesThenMerge ==
  \A k \in 1..Len(runs) :
    /\ (\E i \in 1..Len(runs[k].story) : StoryIssued(k, i)) =>
          /\ runs[k].pc \notin {"created", "epics_wait"}
          /\ jobs[runs[k].pipeline].epics_file
          /\ jobs[runs[k].pipeline].progress.epics # "pending"
    /\ runs[k].merging =>
          \A i \in 1..Len(runs[k].story) : runs[k].story[i] \in StoryOutcomes

C13_Witness ==
  \E k \in 1..Len(runs) :
    /\ runs[k].merging
    /\ Len(runs[k].story) >= 2
    /\ runs[k].out_of_order

\* the run got and saved the epic generator's text, it had no titled EPIC
\* header, and the run has ended
EndedWithoutEpics(k) ==
  /\ runs[k].no_header
  /\ runs[k].pc \in {"completed", "failed"}

\* what C14 says of such a run: its job is failed with an error recorded,
\* no story task was made for it and it has no final file
FailedForNoEpics(k) ==
  /\ runs[k].pc = "failed"
  /\ runs[k].story = <<>>
  /\ jobs[runs[k].pipeline].status = "failed"
  /\ jobs[runs[k].pipeline].error # ""
  /\ ~jobs[runs[k].pipeline].final_file

\* C14 (as claimed): when the epic generator's text has no parseable EPIC
\* header, the job ends in status failed with an error recorded, no
\* story-generation call is issued for it, and its final_file stays unset.
C14_NoEpicsFailsJob ==
  \A k \in 1..Len(runs) : EndedWithoutEpics(k) => FailedForNoEpics(k)

\* the outcome of C14 holds as long as no two jobs share a pipeline_id
NoEpicsFailsJobWithoutCollision == NoCollision => C14_NoEpicsFailsJob

\* a run without collision that failed for want of epics
NoEpicsFailsJobCase ==
  /\ NoCollision
  /\ \E k \in 1..Len(runs) :
       /\ EndedWithoutEpics(k)
       /\ jobs[runs[k].pipeline].error = "No epics found in result"

\* the table still holds the record of every job that was started
EveryJobKept ==
  \A h \in 1..Len(jobs) :
    \E id \in DOMAIN active_pipelines : active_pipelines[id] = h

\* C15 (as claimed): every start_pipeline call returns a pipeline_id no
\* earlier job has, also for two calls for the same session in close
\* succession, and starting a job never replaces the record of another job.
C15_PipelineIdsUnique == NoCollision /\ EveryJobKept

\* an entry of rerun_results is not the empty string
EntryNonEmpty(entry) == entry.label # "" \/ entry.body # ""

\* C16: the result of a variation (rerun) template has exactly 5 entries in
\* rerun_results, each non-empty, whatever the variation calls returned and
\* whichever of them failed; it is the result the batch returns.
C16_RerunHasFiveEntries ==
  /\ \A t \in Requested :
       (TemplateType(t) = "rerun" /\ tasks[t].state = "done") =>
          /\ Len(tasks[t].result.rerun_results) = 5
          /\ \A i \in 1..5 : EntryNonEmpty(tasks[t].result.rerun_results[i])
  /\ exec_pc = "returned" =>
       \A n \in 1..Len(returned) :
          TemplateType(returned[n].template_id) = "rerun" =>
             /\ Len(returned[n].rerun_results) = 5
             /\ \A i \in 1..5 : EntryNonEmpty(returned[n].rerun_results[i])

C16_Witness ==
  /\ exec_pc = "returned"
  /\ Len(returned) = 1
  /\ \E i, j, m \in 1..5 :
       /\ tasks[1].calls[i] = Raised
       /\ tasks[1].calls[j].st = "ok" /\ tasks[1].calls[j].words = 0
       /\ tasks[1].calls[m].st = "ok" /\ tasks[1].calls[m].words > 0

\* the position of the first question mark of a line
FirstQuestionMark(line) ==
  CHOOSE i \in 1..Len(line) :
    line[i] = "?" /\ \A j \in 1..(i - 1) : line[j] # "?"

\* the number of blanks a line starts with
LeadingBlanks(line) ==
  IF \A i \in 1..Len(line) : line[i] = " " THEN Len(line)
  ELSE (CHOOSE i \in 1..Len(line) :
          line[i] # " " /\ \A j \in 1..(i - 1) : line[j] = " ") - 1

\* the line cut after its first question mark, without its leading blanks
TruncatedAtFirstQuestionMark(line) ==
  SubSeq(line, LeadingBlanks(line) + 1, FirstQuestionMark(line))

\* a line qualifies: a question mark and more than 10 characters from the
\* first to the last character that is not a blank
Qualifies(line) ==
  /\ HasQuestionMark(line)
  /\ \E a, b \in 1..Len(line) :
       /\ line[a] # " " /\ line[b] # " "
       /\ \A j \in 1..Len(line) : (j < a \/ j > b) => line[j] = " "
       /\ b - a + 1 > 10

\* the sample lines that qualify, and what each is once cut
QualifyingLines == {line \in LineSamples : Qualifies(line)}
CutLine == [line \in QualifyingLines |-> TruncatedAtFirstQuestionMark(line)]

\* the number of qualifying lines of a text
NumQualifying(text) ==
  Cardinality({n \in 1..Len(text) : text[n] \in QualifyingLines})

\* C17: question extraction returns at most 10 strings, each contains a
\* question mark and is a line of the text cut after its first question
\* mark, and with fewer than 10 qualifying lines the result is not padded:
\* it has one string per qualifying line.
C17_QuestionsCappedAndTruncated ==
  questions # None =>
    LET qs == questions.returned
    IN /\ Len(qs) <= 10
       /\ \A i \in 1..Len(qs) :
            /\ HasQuestionMark(qs[i])
            /\ \E n \in 1..Len(response_text) :
                 /\ response_text[n] \in QualifyingLines
                 /\ qs[i] = CutLine[response_text[n]]
       /\ \/ Len(qs) = NumQualifying(response_text)
          \/ Len(qs) = 10 /\ NumQualifying(response_text) > 10

C17_Witness ==
  /\ questions # None
  /\ Len(questions.returned) = 10
  /\ NumQualifying(response_text) = 11

\* C18: the confidence heuristic is monotonic non-decreasing in the word
\* count over its four bands (0.6, 0.7, 0.8, 0.9): exactly 100, 200 and 300
\* words fall in the lower band of their boundary, one word more in the
\* upper band.
C18_ConfidenceMonotonic ==
  confidences # None =>
    LET a == word_counts[1]
        b == word_counts[2]
        ca == confidences.returned[1]
        cb == confidences.returned[2]
    IN /\ ca \in {60, 70, 80, 90}
       /\ a <= b => ca <= cb
       /\ a = b => ca = cb
       /\ a = 0 => ca = 60
       /\ a = 100 => ca = 60
       /\ a = 101 => ca = 70
       /\ a = 200 => ca = 70
       /\ a = 201 => ca = 80
       /\ a = 300 => ca = 80
       /\ a = 301 => ca = 90

C18_Witness ==
  /\ confidences # None
  /\ word_counts = <<300, 301>>
  /\ confidences.returned = <<80, 90>>

\* the positions, in registration order, of the providers that list the model
Listing(model_id) ==
  {i \in 1..Len(providers) : model_id \in providers[i].models}

\* C19: get_provider_for_model returns the earliest registered provider
\* whose catalog holds the model id, also when several providers list it,
\* and none when no registered provider lists it.
C19_FirstMatchInRegistrationOrder ==
  (llm_result # None /\ llm_result.op = "get_provider_for_model") =>
    LET at == Listing(llm_result.model)
    IN IF at = {}
         THEN llm_result.outcome.provider = NoProvider
         ELSE \E i \in at :
                /\ \A j \in at : i <= j
                /\ llm_result.outcome.provider = providers[i].name

C19_Witness ==
  /\ llm_result # None
  /\ llm_result.op = "get_provider_for_model"
  /\ Cardinality(Listing(llm_result.model)) >= 2
  /\ 1 \notin Listing(llm_result.model)
  /\ llm_result.outcome.provider = providers[2].name

\* C20: registry generate fails with the provider-not-found error when no
\* provider is given and no registered provider lists the model, and with
\* the model-not-available error, listing the provider's models, when the
\* provider given is registered and does not list the model; whenever it
\* fails, no provider's generate is called.
C20_GenerateErrors ==
  (llm_result # None /\ llm_result.op = "generate") =>
    /\ (llm_result.provider = NoProvider /\ Listing(llm_result.model) = {}) =>
          llm_result.outcome.error = "No provider found for model"
    /\ \A i \in 1..Len(providers) :
          (/\ llm_result.provider = providers[i].name
           /\ llm_result.model \notin providers[i].models) =>
             /\ llm_result.outcome.error = "Model not available for provider"
             /\ llm_result.outcome.available = providers[i].models
    /\ llm_result.outcome.error # "" => generate_calls = llm_result.calls_before
    /\ llm_result.outcome.error = "" =>
          /\ llm_result.outcome.provider \in
                {providers[i].name : i \in Listing(llm_result.model)}
          /\ generate_calls # llm_result.calls_before

C20_Witness ==
  /\ llm_result # None
  /\ llm_result.op = "generate"
  /\ llm_result.provider # NoProvider
  /\ llm_result.outcome.error = "Model not available for provider"
  /\ llm_result.outcome.available # {}
  /\ Listing(llm_result.model) # {}
  /\ TotalGenerateCalls > 0

\* the declared dependencies of a requested id that are requested too
InSetDependencies(t) == Dependencies(get_template(t)) \cap Requested

\* the batch has computed its stages and found no error
Staged == exec_pc \in {"gather", "waiting", "returned"}

\* C25: the stages partition the requested ids over the dependency relation
\* restricted to the requested set: the first stage holds exactly the ids
\* with no dependency in the set, an id is in the stage after stage k
\* exactly when all its in-set dependencies are in stages up to k and one is
\* in stage k, and dependencies outside the set change nothing: an acyclic
\* request of known ids is always staged.
C25_StagesPartition ==
  /\ (AllKnown /\ ~HasCycle /\ exec_pc # "start") => Staged
  /\ Staged =>
       /\ \A t \in Requested :
            Cardinality({n \in 1..Len(execution_stages) :
                           t \in Range(execution_stages[n])}) = 1
       /\ \A n \in 1..Len(execution_stages) :
            /\ Range(execution_stages[n]) \subseteq Requested
            /\ Len(execution_stages[n]) = Cardinality(Range(execution_stages[n]))
       /\ \A t \in Requested :
            /\ StageOf(t) = 1 <=> InSetDependencies(t) = {}
            /\ \A k \in 1..Len(execution_stages) :
                 StageOf(t) = k + 1 <=>
                   /\ \A d \in InSetDependencies(t) : StageOf(d) <= k
                   /\ \E d \in InSetDependencies(t) : StageOf(d) = k

C25_Witness ==
  /\ Staged
  /\ Len(execution_stages) = 2
  /\ \E t \in Range(execution_stages[1]) :
       Dependencies(templates[t]) \ Requested # {}

\* C26: the dependency results an agent is started with are the results of
\* exactly its declared dependencies that are requested: each is settled
\* and included, and no result of another agent is included.
C26_ContextIsInSetDependencies ==
  \A t \in Requested :
    tasks[t].state # "none" =>
      /\ {tasks[t].context[i].template_id : i \in 1..Len(tasks[t].context)}
            = InSetDependencies(t)
      /\ Len(tasks[t].context) = Cardinality(InSetDependencies(t))
      /\ \A d \in InSetDependencies(t) :
           /\ tasks[d].state = "done"
           /\ \E i \in 1..Len(tasks[t].context) :
                tasks[t].context[i] = tasks[d].result

C26_Witness ==
  \E t, d, u \in Requested :
    /\ t # d /\ t # u /\ d # u
    /\ tasks[t].state = "running"
    /\ InSetDependencies(t) = {d}
    /\ StageOf(u) < StageOf(t)
    /\ Dependencies(templates[t]) \ Requested = {}

\* final_file is set exactly on the completed job
FinalFileIffCompleted(job) == job.final_file <=> job.status = "completed"

\* C28 (as claimed): whenever another task can read the job table, a job has
\* final_file set if and only if its status is completed.
C28_FinalFileIffCompleted ==
  \A h \in 1..Len(jobs) : FinalFileIffCompleted(jobs[h])

\* the equivalence of C28 holds as long as no two jobs share a pipeline_id
FinalFileIffCompletedWithoutCollision == NoCollision => C28_FinalFileIffCompleted

\* a completed job with its final file, no pipeline_id shared
FinalFileIffCompletedCase ==
  /\ NoCollision
  /\ \E h \in 1..Len(jobs) : jobs[h].final_file /\ jobs[h].status = "completed"



\* ------------------------------------------- the template store's operations
\* bounds: ids minted, length of the list handed to set_active_templates
MaxCreated == 2
MaxActive == 2

\* template.type of a created template (CreateAgentTemplateRequest.type)
TemplateTypes == {"rerun", "questions", "standard"}

\* lines 81 and 180: the id create_template and duplicate_template mint, the
\* type and the timestamp of the call; successive calls get successive ids
NewTemplateId == Cardinality(StoreIds) + created + 1

\* every id a caller may name: the defaults, the minted ones, one never stored
CallerIds == 1..(Cardinality(StoreIds) + MaxCreated + 1)

\* lines 83-95 and 182-194: the template create/duplicate_template build
NewTemplate(id, type) ==
  [id |-> id, type |-> type, depends_on |-> {},
   is_active |-> TRUE, is_custom |-> TRUE]

\* self.templates[template_id] = template
PutTemplate(store, template) ==
  [t \in DOMAIN store \cup {template.id} |->
     IF t = template.id THEN template ELSE store[t]]

\* del self.templates[template_id]
DelTemplate(store, id) == [t \in DOMAIN store \ {id} |-> store[t]]

\* list.remove(x): the list without its first x
ListRemove(list, x) ==
  LET i == CHOOSE k \in 1..Len(list) :
             list[k] = x /\ \A j \in 1..(k - 1) : list[j] # x
  IN SubSeq(list, 1, i - 1) \o SubSeq(list, i + 1, Len(list))

\* the lists set_active_templates may be handed
ActiveLists == UNION {[1..k -> CallerIds] : k \in 0..MaxActive}

\* create_template, lines 79-101
create_template(type) ==
  /\ created < MaxCreated
  /\ templates' = PutTemplate(templates, NewTemplate(NewTemplateId, type))
  /\ active_templates' = Append(active_templates, NewTemplateId)
  /\ created' = created + 1
  /\ UNCHANGED <<template_ids, batch_templates, exec_pc, execution_stages,
                 stage, tasks, executed_results, returned, llm_calls>>
  /\ UNCHANGED <<pipe_vars, query_vars, fn_vars, llm_vars, hand_vars>>

\* update_template, lines 103-131; given says whether request.is_active is
\* not None, is_active is its value
update_template(template_id, given, is_active) ==
  /\ IF template_id \notin DOMAIN templates \/ ~given
       THEN UNCHANGED <<templates, active_templates>>
       ELSE /\ templates' = [templates EXCEPT ![template_id].is_active = is_active]
            /\ active_templates' =
                 IF is_active /\ template_id \notin Range(active_templates)
                   THEN Append(active_templates, template_id)
                 ELSE IF ~is_active /\ template_id \in Range(active_templates)
                   THEN ListRemove(active_templates, template_id)
                 ELSE active_templates
  /\ UNCHANGED created
  /\ UNCHANGED <<template_ids, batch_templates, exec_pc, execution_stages,
                 stage, tasks, executed_results, returned, llm_calls>>
  /\ UNCHANGED <<pipe_vars, query_vars, fn_vars, llm_vars, hand_vars>>

\* delete_template, lines 133-147
delete_template(template_id) ==
  /\ IF template_id \notin DOMAIN templates
       THEN UNCHANGED <<templates, active_templates>>
       ELSE IF ~templates[template_id].is_custom
         THEN UNCHANGED <<templates, active_templates>>
         ELSE /\ templates' = DelTemplate(templates, template_id)
              /\ active_templates' =
                   IF template_id \in Range(active_templates)
                     THEN ListRemove(active_templates, template_id)
                     ELSE active_templates
  /\ UNCHANGED created
  /\ UNCHANGED <<template_ids, batch_templates, exec_pc, execution_stages,
                 stage, tasks, executed_results, returned, llm_calls>>
  /\ UNCHANGED <<pipe_vars, query_vars, fn_vars, llm_vars, hand_vars>>

\* set_active_templates, lines 149-163
set_active_templates(ids) ==
  /\ IF \E i \in 1..Len(ids) : ids[i] \notin DOMAIN templates
       THEN UNCHANGED <<templates, active_templates>>
       ELSE /\ active_templates' = ids
            /\ templates' = [t \in DOMAIN templates |->
                               [templates[t] EXCEPT !.is_active = t \in Range(ids)]]
  /\ UNCHANGED created
  /\ UNCHANGED <<template_ids, batch_templates, exec_pc, execution_stages,
                 stage, tasks, executed_results, returned, llm_calls>>
  /\ UNCHANGED <<pipe_vars, query_vars, fn_vars, llm_vars, hand_vars>>

\* duplicate_template, lines 174-200
duplicate_template(template_id) ==
  /\ IF template_id \notin DOMAIN templates
       THEN UNCHANGED <<templates, active_templates, created>>
       ELSE /\ created < MaxCreated
            /\ templates' = PutTemplate(templates,
                              NewTemplate(NewTemplateId, templates[template_id].type))
            /\ active_templates' = Append(active_templates, NewTemplateId)
            /\ created' = created + 1
  /\ UNCHANGED <<template_ids, batch_templates, exec_pc, execution_stages,
                 stage, tasks, executed_results, returned, llm_calls>>
  /\ UNCHANGED <<pipe_vars, query_vars, fn_vars, llm_vars, hand_vars>>

CreateTemplate == \E type \in TemplateTypes : create_template(type)

UpdateTemplate ==
  \E template_id \in CallerIds, given, is_active \in BOOLEAN :
    update_template(template_id, given, is_active)

DeleteTemplate == \E template_id \in CallerIds : delete_template(template_id)

SetActiveTemplates == \E ids \in ActiveLists : set_active_templates(ids)

DuplicateTemplate == \E template_id \in CallerIds : duplicate_template(template_id)

NextStore ==
  \/ CreateTemplate
  \/ UpdateTemplate
  \/ DeleteTemplate
  \/ SetActiveTemplates
  \/ DuplicateTemplate

\* the store service as constructed, its operations called in any order
InitStore == ExecIdle(StoreOf({}), <<>>) /\ RestIdleExec

SpecStore == InitStore /\ [][NextStore]_vars

\* C29: after any sequence of store operations a template's is_active flag
\* is true exactly when its id is in active_templates, and active_templates
\* holds only ids of existing templates
C29_ActiveFlagMatchesList ==
  /\ \A t \in DOMAIN templates :
       templates[t].is_active <=> t \in Range(active_templates)
  /\ Range(active_templates) \subseteq DOMAIN templates

\* active_templates holds no id twice
NoRepeats ==
  \A i, j \in 1..Len(active_templates) :
    active_templates[i] = active_templates[j] => i = j

\* every operation keeps the flags and the list in step when it starts from a
\* list that holds no id twice
ActiveFlagKeptWithoutRepeats ==
  [][(C29_ActiveFlagMatchesList /\ NoRepeats) => C29_ActiveFlagMatchesList']_vars

\* an id handed twice to set_active_templates and then deactivated: the list
\* still holds it
ActiveFlagMatchesListCase ==
  \E t \in DOMAIN templates :
    ~templates[t].is_active /\ t \in Range(active_templates)

\* ------------------------------------- a batch while the store is changed
\* the templates of the store a user created: the standard one
CustomIds == {t \in StoreIds : TemplateType(t) = "standard"}

\* the store whose templates in C were made by create_template
CustomStoreOf(E, C) ==
  [t \in StoreIds |-> [StoreOf(E)[t] EXCEPT !.is_custom = t \in C]]

\* one batch of the executor while another request handler deletes templates:
\* execute_multiple_templates gives up the event loop at its gather (line
\* 432) and each agent at its generate call
InitRace ==
  \E E \in EdgeSets(MaxEdges), tids \in UniqueSeqs(AllIds, MaxRequest) :
    ExecIdle(CustomStoreOf(E, CustomIds), tids) /\ RestIdleExec

NextRace ==
  \/ NextExec
  \/ DeleteTemplate

SpecRace == InitRace /\ [][NextRace]_vars

\* C27: once every requested id has passed the resolution of lines 371-374
\* the batch never fails with template-not-found, no such error is raised
\* after an LLM call of the batch was issued, and the batch returns one
\* result per requested id
C27_NoNotFoundAfterResolution ==
  /\ exec_pc = "error_not_found" => batch_templates = <<>> /\ llm_calls = 0
  /\ \A t \in AllIds : tasks[t].raised => llm_calls = 0
  /\ exec_pc = "returned" => Len(returned) = Len(template_ids)

\* the same of a batch during which the store still holds every requested id
NoNotFoundWhileStored ==
  Requested \subseteq DOMAIN templates => C27_NoNotFoundAfterResolution

\* a template deleted while the first stage waits for its LLM calls: the
\* batch ends with template-not-found after calls were issued
NoNotFoundAfterResolutionCase ==
  /\ exec_pc = "error_not_found"
  /\ llm_calls > 0
  /\ \E t \in Requested : tasks[t].raised /\ t \notin DOMAIN templates

\* ------------------------------------------------- the handoff coordinator
\* bounds: words of an input, keywords it holds, supporting agents of a
\* decision a caller builds by hand
MaxInputWords == 21
MaxKeywords == 2
MaxSupporting == 2

\* the AgentType enum in its definition order (agent_models.py lines 5-17)
AgentTypes ==
  <<"ui_designer", "ux_researcher", "developer", "product_manager",
    "stakeholder", "epic_generator", "story_generator", "qa_planner",
    "review_agent", "development_planner">>

\* the keyword lists of lines 44-50 and 59
UIKeywords == {"visual", "design", "color", "layout", "aesthetic"}
UXKeywords == {"user", "experience", "usability", "accessibility", "flow"}
DevKeywords == {"technical", "implement", "code", "performance", "architecture"}
PMKeywords == {"business", "requirement", "feature", "product", "strategy"}
DetailKeywords == {"comprehensive", "complete", "full", "detailed"}

Keywords ==
  UIKeywords \cup UXKeywords \cup DevKeywords \cup PMKeywords \cup DetailKeywords

\* line 57: an input of more words than this is a complex request
ComplexWords == 20
\* lines 58 and 60: the slices of the supporting list
ComplexSupport == 2
DetailSupport == 3

RECURSIVE KeywordSets(_)
\* every set of at most k keywords
KeywordSets(k) ==
  IF k = 0 THEN {{}}
  ELSE LET S == KeywordSets(k - 1)
       IN S \cup {K \cup {w} : K \in S, w \in Keywords}

\* user_input as evaluate_handoff_needs reads it: the number of words of
\* input_lower.split() and the keywords that occur in input_lower; a text
\* without a word holds no keyword
UserInputs ==
  {[words |-> n, keywords |-> K] :
     n \in 0..MaxInputWords, K \in KeywordSets(MaxKeywords)} \
  {[words |-> 0, keywords |-> K] : K \in KeywordSets(MaxKeywords) \ {{}}}

\* any(keyword in input_lower for keyword in list)
AnyKeyword(input, list) == input.keywords \cap list # {}

\* lines 44-53: the primary agent
PrimaryAgent(input, current) ==
  IF AnyKeyword(input, UIKeywords) THEN "ui_designer"
  ELSE IF AnyKeyword(input, UXKeywords) THEN "ux_researcher"
  ELSE IF AnyKeyword(input, DevKeywords) THEN "developer"
  ELSE IF AnyKeyword(input, PMKeywords) THEN "product_manager"
  ELSE current

\* list[:n]
Take(list, n) == SubSeq(list, 1, IF n < Len(list) THEN n ELSE Len(list))

\* mutant: the enum's first members, the primary agent among them
OtherAgentsAll(primary) == AgentTypes

\* [agent for agent in AgentType if agent != primary]
OtherAgents(primary) == SelectSeq(AgentTypes, LAMBDA agent : agent # primary)

\* lines 56-61: the supporting agents
SupportingAgents(input, primary) ==
  IF input.words > ComplexWords
    THEN Take(OtherAgents(primary), ComplexSupport)
  ELSE IF AnyKeyword(input, DetailKeywords)
    THEN Take(OtherAgents(primary), DetailSupport)
  ELSE <<>>

\* line 64
requires_parallel(supporting) == Len(supporting) > 0

\* mutant: synthesis only for more than two supporting agents
requires_synthesisOverTwo(supporting) == Len(supporting) > 2

\* line 67
requires_synthesis(supporting) == Len(supporting) > 1

\* evaluate_handoff_needs, lines 33-76 (recent_responses is not read;
\* confidence and reasoning are a fixed number and a text of the two agents)
evaluate_handoff_needs(input, current) ==
  LET primary == PrimaryAgent(input, current)
      supporting == SupportingAgents(input, primary)
  IN [primary_agent |-> primary,
      supporting_agents |-> supporting,
      requires_parallel_processing |-> requires_parallel(supporting),
      requires_synthesis |-> requires_synthesis(supporting)]

\* mutant: supporting priorities start right after their index
SupportingPriorityFromOne(i) == i + 1

\* line 99: the priority of the supporting agent enumerate gives index i
SupportingPriority(i) == i + 2

\* mutant: supporting agents always wait for the primary agent
SupportingDependenciesSequential(d) == <<d.primary_agent>>

\* line 102: the dependencies of a supporting agent
SupportingDependencies(d) ==
  IF ~d.requires_parallel_processing THEN <<d.primary_agent>> ELSE <<>>

\* create_workload_assignments, lines 78-107 (focus_areas and
\* specific_questions are texts looked up per agent type and are left out)
create_workload_assignments(d) ==
  <<[agent_type |-> d.primary_agent, priority |-> 1, dependencies |-> <<>>]>>
  \o [k \in 1..Len(d.supporting_agents) |->
        [agent_type |-> d.supporting_agents[k],
         priority |-> SupportingPriority(k - 1),
         dependencies |-> SupportingDependencies(d)]]

\* the decisions a caller of create_workload_assignments may build itself
Decisions ==
  {[primary_agent |-> p, supporting_agents |-> s,
    requires_parallel_processing |-> par, requires_synthesis |-> syn] :
     p \in Range(AgentTypes), s \in UniqueSeqs(Range(AgentTypes), MaxSupporting),
     par \in BOOLEAN, syn \in BOOLEAN}

EvaluateHandoffNeeds ==
  /\ decision = None
  /\ decision' = evaluate_handoff_needs(user_input, current_agent)
  /\ UNCHANGED <<user_input, current_agent, assignments, agent_responses,
                 synthesis>>
  /\ UNCHANGED <<exec_vars, pipe_vars, query_vars, fn_vars, llm_vars, store_vars>>

CreateWorkloadAssignments ==
  /\ decision # None
  /\ assignments = None
  /\ assignments' = [returned |-> create_workload_assignments(decision)]
  /\ UNCHANGED <<user_input, current_agent, decision, agent_responses,
                 synthesis>>
  /\ UNCHANGED <<exec_vars, pipe_vars, query_vars, fn_vars, llm_vars, store_vars>>

\* the coordinator handed in, the decision d made, responses rs to synthesize
HandState(in, cur, d, rs) ==
  /\ user_input = in
  /\ current_agent = cur
  /\ decision = d
  /\ assignments = None
  /\ agent_responses = rs
  /\ synthesis = None

\* everything but the coordinator at rest
RestIdleHand ==
  /\ ExecIdle(StoreOf({}), <<>>) /\ PipeIdle /\ QueryIdle /\ FnIdle
  /\ LLMIdle(<<>>) /\ StoreIdle

\* websocket/handlers.py lines 131-137: a decision evaluated for any input
\* and any current agent, then turned into assignments
InitHandoff ==
  \E in \in UserInputs, cur \in Range(AgentTypes) :
    HandState(in, cur, None, <<>>) /\ RestIdleHand

NextHandoff ==
  \/ EvaluateHandoffNeeds
  \/ CreateWorkloadAssignments

SpecHandoff == InitHandoff /\ [][NextHandoff]_vars

\* create_workload_assignments handed any decision
InitAssign ==
  \E d \in Decisions :
    HandState([words |-> 0, keywords |-> {}], d.primary_agent, d, <<>>)
      /\ RestIdleHand

NextAssign == CreateWorkloadAssignments

SpecAssign == InitAssign /\ [][NextAssign]_vars

\* C21: in every decision of evaluate_handoff_needs
\* requires_parallel_processing is true exactly when supporting_agents is
\* non-empty and requires_synthesis exactly when it has more than one entry
C21_FlagsFollowSupporting ==
  decision # None =>
    /\ decision.requires_parallel_processing
         <=> decision.supporting_agents # <<>>
    /\ decision.requires_synthesis <=> Len(decision.supporting_agents) > 1

C21_Witness ==
  /\ decision # None
  /\ Len(decision.supporting_agents) = 2
  /\ decision.requires_synthesis

\* C22: at most 2 supporting agents for an input of more than 20 words,
\* otherwise at most 3 for an input with one of comprehensive / complete /
\* full / detailed, otherwise none; never the primary agent, never more than 3
C22_SupportingPolicy ==
  decision # None =>
    LET supporting == decision.supporting_agents
        detailed == user_input.keywords \cap
                      {"comprehensive", "complete", "full", "detailed"} # {}
    IN /\ user_input.words > 20 => Len(supporting) <= 2
       /\ user_input.words <= 20 /\ detailed => Len(supporting) <= 3
       /\ user_input.words <= 20 /\ ~detailed => supporting = <<>>
       /\ decision.primary_agent \notin Range(supporting)
       /\ Len(supporting) <= 3

\* a short detailed input whose primary agent is the enum's first member
C22_Witness ==
  /\ decision # None
  /\ user_input.words <= 20
  /\ "detailed" \in user_input.keywords
  /\ decision.primary_agent = AgentTypes[1]
  /\ Len(decision.supporting_agents) = 3

\* C23: the primary agent's assignment comes first with priority 1 and no
\* dependencies, then one assignment per supporting agent in decision order
\* with priority index+2, depending on the primary agent exactly when the
\* decision's requires_parallel_processing is false
C23_AssignmentsOfDecision ==
  assignments # None =>
    LET list == assignments.returned
        supporting == decision.supporting_agents
    IN /\ Len(list) = 1 + Len(supporting)
       /\ list[1].agent_type = decision.primary_agent
       /\ list[1].priority = 1
       /\ list[1].dependencies = <<>>
       /\ \A k \in 1..Len(supporting) :
            /\ list[k + 1].agent_type = supporting[k]
            /\ list[k + 1].priority = (k - 1) + 2
            /\ list[k + 1].dependencies =
                 IF decision.requires_parallel_processing
                   THEN <<>> ELSE <<decision.primary_agent>>

\* a hand-built sequential decision with two supporting agents
C23_Witness ==
  /\ assignments # None
  /\ ~decision.requires_parallel_processing
  /\ Len(decision.supporting_agents) = 2
  /\ assignments.returned[3].dependencies = <<decision.primary_agent>>

\* C30: every assignment made from a decision of evaluate_handoff_needs has
\* an empty dependency list
C30_NoDependenciesFromEvaluate ==
  assignments # None =>
    \A k \in 1..Len(assignments.returned) :
      assignments.returned[k].dependencies = <<>>

\* assignments for a decision with supporting agents
C30_Witness ==
  /\ assignments # None
  /\ decision.supporting_agents # <<>>
  /\ Len(assignments.returned) = 1 + Len(decision.supporting_agents)

\* ------------------------------------------------------ synthesize_responses
\* bounds: responses handed in, suggestions of a response
MaxResponses == 2
MaxSuggestions == 2

\* line 206: a word counts when it is longer than this
MinThemeLen == 4
\* line 212: the number of themes reported
MaxThemes == 5

\* str.lower() of a word
Lower(word) == IF word = "Layout" THEN "layout" ELSE word

\* suggestions a response may hold, each as the words between its spaces
SuggestionSamples ==
  { <<>>,
    <<"improve", "layout">>,
    <<"Layout", "grid">>,
    <<"grid", "grid">>,
    <<"contrast", "contrast">>,
    <<"navigation", "button", "contrast", "spacing", "colors", "layout",
      "typography">> }

\* the response lists synthesize_responses may be handed, one response per
\* agent in the enum's order
ResponseLists ==
  LET lists == UNION {[1..k -> SuggestionSamples] : k \in 0..MaxSuggestions}
  IN UNION {[1..n -> lists] : n \in 0..MaxResponses}

\* suggestion.lower().split() filtered by line 206, for a list of suggestions
ThemeWords(suggestions) ==
  LET lowered == [i \in 1..Len(suggestions) |->
                    [k \in 1..Len(suggestions[i]) |-> Lower(suggestions[i][k])]]
  IN SelectSeq(Flatten(lowered), LAMBDA word : Len(word) > MinThemeLen)

RECURSIVE Keys(_)
\* the keys of suggestion_counts in the order they were first inserted
Keys(words) ==
  IF words = <<>> THEN <<>>
  ELSE LET rest == Keys(SubSeq(words, 1, Len(words) - 1))
           last == words[Len(words)]
       IN IF last \in Range(rest) THEN rest ELSE Append(rest, last)

\* suggestion_counts[word]
Count(words, word) == Cardinality({i \in 1..Len(words) : words[i] = word})

\* lines 197-212: the common themes of a list of responses
common_themes(responses) ==
  LET words == ThemeWords(Flatten(responses))
  IN Take(SelectSeq(Keys(words), LAMBDA word : Count(words, word) > 1),
          MaxThemes)

\* synthesize_responses, lines 183-226 (overall_confidence is the fixed
\* default of every response and next_steps a fixed list)
synthesize_responses(responses) ==
  [coordination_summary |-> Len(responses),
   common_themes |-> common_themes(responses)]

SynthesizeResponses ==
  /\ synthesis = None
  /\ synthesis' = synthesize_responses(agent_responses)
  /\ UNCHANGED <<user_input, current_agent, decision, assignments,
                 agent_responses>>
  /\ UNCHANGED <<exec_vars, pipe_vars, query_vars, fn_vars, llm_vars, store_vars>>

\* synthesize_responses handed any list of responses
InitSynth ==
  \E rs \in ResponseLists :
    HandState([words |-> 0, keywords |-> {}], AgentTypes[1], None, rs)
      /\ RestIdleHand

NextSynth == SynthesizeResponses

SpecSynth == InitSynth /\ [][NextSynth]_vars

\* the responses whose suggestions hold the word
ResultsWith(word) ==
  {n \in 1..Len(agent_responses) :
     word \in Range(ThemeWords(agent_responses[n]))}

\* C24: every reported theme is longer than 4 characters and appears in the
\* suggestions of more than one of the given results, and at most 5 themes
\* are reported
C24_ThemesOfSeveralResults ==
  synthesis # None =>
    /\ \A word \in Range(synthesis.common_themes) :
         Len(word) > 4 /\ Cardinality(ResultsWith(word)) > 1
    /\ Len(synthesis.common_themes) <= 5

\* what the code does keep: every theme is longer than 4 characters and
\* occurs more than once among all the suggestions, and at most 5 are reported
ThemesOccurTwice ==
  synthesis # None =>
    /\ \A word \in Range(synthesis.common_themes) :
         /\ Len(word) > 4
         /\ Count(ThemeWords(Flatten(agent_responses)), word) > 1
    /\ Len(synthesis.common_themes) <= 5

\* a theme reported for a single response
ThemesOfSeveralResultsCase ==
  /\ synthesis # None
  /\ Len(agent_responses) = 1
  /\ synthesis.common_themes # <<>>

\* more candidate words than themes reported
ThemesCappedCase ==
  /\ synthesis # None
  /\ Len(synthesis.common_themes) = 5
  /\ \E word \in Range(ThemeWords(Flatten(agent_responses))) :
       /\ Count(ThemeWords(Flatten(agent_responses)), word) > 1
       /\ word \notin Range(synthesis.common_themes)

====
